---- MODULE Spec2Model ----
(***************************************************************************)
(* A model of the catalyst expression optimizer: the expression trees of   *)
(* ast.hpp / ast.cpp, the evaluator of eval.cpp and the pattern matcher    *)
(* and rewrite engine of optimizer.cpp.                                    *)
(*                                                                         *)
(* Expression nodes live in a heap.  An address is the identity of one     *)
(* object and is never handed out twice, so that "the same node" and "a    *)
(* new node" are statements about the state.  A std::unique_ptr is the     *)
(* address it owns, 0 is nullptr, and `live` is the set of objects that    *)
(* have been constructed and not yet destroyed.  heap keeps the last       *)
(* contents of a destroyed object for the record; the program only reads   *)
(* live objects.                                                           *)
(***************************************************************************)
EXTENDS Naturals, Sequences, FiniteSets, TLC

VARIABLES
  heap,      \* Seq(Node): heap[a] is the object at address a
  live,      \* the addresses of the objects not yet destroyed
  input,     \* the caller's tree (main.cpp: `input`)
  pattern,   \* a second caller-built tree, the `pattern` argument of Match
  output,    \* the tree returned by Optimize (main.cpp: `output`), 0 before
  again,     \* the tree returned by Optimize of `output`, 0 before
  copy,      \* the tree returned by Clone, 0 before
  call,      \* the last call the caller made, and what it returned
  passes,    \* the passes of the last Optimize: rule, tree given, tree made
  rewrites,  \* the rewrites of the last Optimize, in the order they were made
  replaces,  \* number of ReplaceLeft / ReplaceRight calls made so far
  aborted    \* the process has aborted (a failed assert)

vars ==
  <<heap, live, input, pattern, output, again, copy, call, passes, rewrites, replaces,
    aborted>>

-----------------------------------------------------------------------------
(* Bounds of the model.                                                    *)

\* the caller's trees have at most this many numeric leaves
MaxLeaves == 3
\* the trees handed to Match have at most this many numeric leaves each
MaxMatchLeaves == 2
\* the caller replaces a child at most this many times
MaxReplaces == 2

-----------------------------------------------------------------------------
(* std::size_t.  A value is kept at its full width as SizeBits / 16 limbs  *)
(* of 16 bits, least significant first; `+` wraps as unsigned addition     *)
(* does.                                                                   *)

SizeBits == 64
LimbBase == 2 ^ 16
NumLimbs == SizeBits \div 16

ToWord(n) == [i \in 1..NumLimbs |-> IF i = 1 THEN n ELSE 0]
SIZE_MAX == [i \in 1..NumLimbs |-> LimbBase - 1]

\* the carry into limb i of a + b
RECURSIVE CarryInto(_, _, _)
CarryInto(a, b, i) ==
  IF i = 1 THEN 0 ELSE (a[i - 1] + b[i - 1] + CarryInto(a, b, i - 1)) \div LimbBase

\* a + b on std::size_t: the carry out of the top limb is lost
AddSizeT(a, b) ==
  [i \in 1..NumLimbs |-> (a[i] + b[i] + CarryInto(a, b, i)) % LimbBase]

-----------------------------------------------------------------------------
(* The expression model.                                                   *)

NUMERIC_CONSTANT == "NUMERIC_CONSTANT"
BINARY_ADDITION == "BINARY_ADDITION"

\* NumericConstantExpr::Numeric = std::variant<std::size_t, AnyNumber>: the
\* index of the alternative held (0: std::size_t, 1: AnyNumber) and the
\* storage.  A variant made by Make holds one of the two; one read through
\* a wrong cast can have an index that names neither.
Variant(index, num) == [index |-> index, num |-> num]
SizeT(w) == Variant(0, w)
AnyNumber == Variant(1, ToWord(0))
HoldsSizeT(v) == v.index = 0
HoldsAnyNumber(v) == v.index = 1

NULL_ID == ""
nullptr == 0

\* An object: a NumericConstantExpr has no children, a BinaryAdditionExpr
\* holds no value.
NumericNode(value, id) ==
  [type |-> NUMERIC_CONSTANT, value |-> value, id |-> id,
   left |-> nullptr, right |-> nullptr]
AdditionNode(left, right, id) ==
  [type |-> BINARY_ADDITION, value |-> SizeT(ToWord(0)), id |-> id,
   left |-> left, right |-> right]

\* `new T{...}`: the object gets an address no object ever had
New(h, node) == [heap |-> Append(h, node), ptr |-> Len(h) + 1]

\* NumericConstantExpr::Make(value) and Make(value, id)
NumericMake(h, value) == New(h, NumericNode(value, NULL_ID))
NumericMakeId(h, value, id) == New(h, NumericNode(value, id))

\* BinaryAdditionExpr::Make(left, right) and Make(left, right, id)
AdditionMake(h, left, right) == New(h, AdditionNode(left, right, NULL_ID))
AdditionMakeId(h, left, right, id) == New(h, AdditionNode(left, right, id))

\* the objects of the tree rooted at p
RECURSIVE Nodes(_, _)
Nodes(h, p) ==
  IF p = nullptr THEN {}
  ELSE IF h[p].type = BINARY_ADDITION
    THEN {p} \cup Nodes(h, h[p].left) \cup Nodes(h, h[p].right)
    ELSE {p}

\* Expr::Evaluate.  The assert of NumericConstantExpr::Evaluate fails on
\* AnyNumber (main.cpp tests with assert, so asserts are compiled in; without
\* them std::get throws std::bad_variant_access, which nothing catches):
\* ok = FALSE, the process aborts and there is no value.  An addition
\* evaluates both operands, so it aborts when either does.
EvalAbort == [ok |-> FALSE, value |-> ToWord(0)]
RECURSIVE Evaluate(_, _)

\* Fault: the addition adds its left operand twice.
EvaluateLeftTwice(h, p) ==
  IF h[p].type = NUMERIC_CONSTANT
    THEN IF HoldsSizeT(h[p].value)
           THEN [ok |-> TRUE, value |-> h[p].value.num]
           ELSE EvalAbort
    ELSE LET l == Evaluate(h, h[p].left)
             r == Evaluate(h, h[p].right)
         IN  IF l.ok /\ r.ok
               THEN [ok |-> TRUE, value |-> AddSizeT(l.value, l.value)]
               ELSE EvalAbort

\* Fault: no assert, a wildcard leaf evaluates to 0.
EvaluateWildcardAsZero(h, p) ==
  IF h[p].type = NUMERIC_CONSTANT
    THEN [ok |-> TRUE, value |-> h[p].value.num]
    ELSE LET l == Evaluate(h, h[p].left)
             r == Evaluate(h, h[p].right)
         IN  IF l.ok /\ r.ok
               THEN [ok |-> TRUE, value |-> AddSizeT(l.value, r.value)]
               ELSE EvalAbort

Evaluate(h, p) ==
  IF h[p].type = NUMERIC_CONSTANT
    THEN IF HoldsSizeT(h[p].value)
           THEN [ok |-> TRUE, value |-> h[p].value.num]
           ELSE EvalAbort
    ELSE LET l == Evaluate(h, h[p].left)
             r == Evaluate(h, h[p].right)
         IN  IF l.ok /\ r.ok
               THEN [ok |-> TRUE, value |-> AddSizeT(l.value, r.value)]
               ELSE EvalAbort

\* eval(root)
eval(h, root) == Evaluate(h, root)

\* Expr::Clone.  C++ leaves the order of the two recursive calls open; it
\* decides which addresses the copies get and nothing else.
RECURSIVE Clone(_, _)

\* Fault: a shallow copy, the new addition points at the original's children.
CloneShallow(h, p) ==
  IF h[p].type = NUMERIC_CONSTANT
    THEN NumericMakeId(h, h[p].value, h[p].id)
    ELSE AdditionMakeId(h, h[p].left, h[p].right, h[p].id)

Clone(h, p) ==
  IF h[p].type = NUMERIC_CONSTANT
    THEN NumericMakeId(h, h[p].value, h[p].id)
    ELSE LET l == Clone(h, h[p].left)
             r == Clone(l.heap, h[p].right)
         IN  AdditionMakeId(r.heap, l.ptr, r.ptr, h[p].id)

\* BinaryAdditionExpr::ReplaceLeft / ReplaceRight: the assignment to the
\* unique_ptr member takes the new tree; `destroyed` is the tree it owned.
ReplaceLeft(h, p, left) ==
  [heap |-> [h EXCEPT ![p].left = left], destroyed |-> Nodes(h, h[p].left)]
ReplaceRight(h, p, right) ==
  [heap |-> [h EXCEPT ![p].right = right], destroyed |-> Nodes(h, h[p].right)]

-----------------------------------------------------------------------------
(* The trees a caller can build with the Make factories, as values.        *)

Values == {ToWord(0), ToWord(1), SIZE_MAX}
Numerics == {SizeT(w) : w \in Values} \cup {AnyNumber}
LeafIds == {NULL_ID, "right"}
AdditionIds == {NULL_ID, "sum"}

Leaf(value, id) == [type |-> NUMERIC_CONSTANT, value |-> value, id |-> id]
Add(l, r, id) == [type |-> BINARY_ADDITION, left |-> l, right |-> r, id |-> id]

\* the trees with exactly n numeric leaves
RECURSIVE TreesOf(_, _, _, _)
TreesOf(n, numerics, leafIds, addIds) ==
  IF n = 1
    THEN {Leaf(v, i) : v \in numerics, i \in leafIds}
    ELSE UNION { {Add(l, r, i) : l \in TreesOf(k, numerics, leafIds, addIds),
                                 r \in TreesOf(n - k, numerics, leafIds, addIds),
                                 i \in addIds} : k \in 1..(n - 1) }

TreesUpTo(n, numerics, leafIds, addIds) ==
  UNION {TreesOf(k, numerics, leafIds, addIds) : k \in 1..n}

\* the caller builds tree t: the operands of an addition before the addition
RECURSIVE Build(_, _)
Build(h, t) ==
  IF t.type = NUMERIC_CONSTANT
    THEN NumericMakeId(h, t.value, t.id)
    ELSE LET l == Build(h, t.left)
             r == Build(l.heap, t.right)
         IN  AdditionMakeId(r.heap, l.ptr, r.ptr, t.id)

\* the tree rooted at p, as a value: kinds, values, binding names, shape
RECURSIVE TreeAt(_, _)
TreeAt(h, p) ==
  IF h[p].type = NUMERIC_CONSTANT
    THEN Leaf(h[p].value, h[p].id)
    ELSE Add(TreeAt(h, h[p].left), TreeAt(h, h[p].right), h[p].id)

-----------------------------------------------------------------------------
(* The optimizer.                                                          *)

\* Optimizer::Match
RECURSIVE Match(_, _, _)

\* Fault: the wildcard test comes before the test of the kinds, so that a
\* wildcard leaf matches an addition.
MatchWildcardFirst(h, pat, query) ==
  IF h[pat].type = NUMERIC_CONSTANT /\ HoldsAnyNumber(h[pat].value) THEN TRUE
  ELSE IF h[pat].type # h[query].type THEN FALSE
  ELSE IF h[pat].type = BINARY_ADDITION
    THEN /\ Match(h, h[pat].left, h[query].left)
         /\ Match(h, h[pat].right, h[query].right)
    ELSE LET v0 == h[pat].value
             v1 == h[query].value
         IN  IF HoldsSizeT(v0) /\ HoldsSizeT(v1)
               THEN v0.num = v1.num
               ELSE TRUE

Match(h, pat, query) ==
  IF h[pat].type # h[query].type THEN FALSE
  ELSE IF h[pat].type = BINARY_ADDITION
    THEN /\ Match(h, h[pat].left, h[query].left)
         /\ Match(h, h[pat].right, h[query].right)
    ELSE LET v0 == h[pat].value
             v1 == h[query].value
         IN  IF HoldsSizeT(v0) /\ HoldsSizeT(v1)
               THEN v0.num = v1.num
               ELSE TRUE

\* FlattenExpressionsTo: the nodes of the tree in post-order
RECURSIVE FlattenExpressionsTo(_, _, _)

\* Fault: pre-order, the addition before its children.
FlattenExpressionsPreOrder(h, root, expressions) ==
  IF h[root].type = BINARY_ADDITION
    THEN LET l == FlattenExpressionsTo(h, h[root].left, Append(expressions, root))
         IN  FlattenExpressionsTo(h, h[root].right, l)
    ELSE Append(expressions, root)

FlattenExpressionsTo(h, root, expressions) ==
  IF h[root].type = BINARY_ADDITION
    THEN LET l == FlattenExpressionsTo(h, h[root].left, expressions)
             r == FlattenExpressionsTo(h, h[root].right, l)
         IN  Append(r, root)
    ELSE Append(expressions, root)

\* FlattenIdentifiersTo: the binding names of the tree in post-order
RECURSIVE FlattenIdentifiersTo(_, _, _)

\* Fault: the right subtree's names before the left subtree's.
FlattenIdentifiersRightFirst(h, root, identifiers) ==
  IF h[root].type = BINARY_ADDITION
    THEN LET r == FlattenIdentifiersTo(h, h[root].right, identifiers)
             l == FlattenIdentifiersTo(h, h[root].left, r)
         IN  Append(l, h[root].id)
    ELSE Append(identifiers, h[root].id)

FlattenIdentifiersTo(h, root, identifiers) ==
  IF h[root].type = BINARY_ADDITION
    THEN LET l == FlattenIdentifiersTo(h, h[root].left, identifiers)
             r == FlattenIdentifiersTo(h, h[root].right, l)
         IN  Append(r, h[root].id)
    ELSE Append(identifiers, h[root].id)

\* Transform::Make
TransformMake(name, input_pattern, output_pattern) ==
  [name |-> name, input_pattern |-> input_pattern, output_pattern |-> output_pattern]

\* Fault: the literal of the input pattern is 1, the rule is 1 + x -> x.
TransformBinaryAdditionWithOneOnLeft(h) ==
  LET one == NumericMake(h, SizeT(ToWord(1)))
      any == NumericMakeId(one.heap, AnyNumber, "right")
      input_pattern == AdditionMake(any.heap, one.ptr, any.ptr)
      output_pattern == NumericMakeId(input_pattern.heap, AnyNumber, "right")
  IN  [heap |-> output_pattern.heap,
       transform |-> TransformMake("Left-wise Binary Addition with Zero",
                                   input_pattern.ptr, output_pattern.ptr)]

\* Optimizer::TransformBinaryAdditionWithZeroOnLeft: 0 + any("right") -> any("right")
TransformBinaryAdditionWithZeroOnLeft(h) ==
  LET zero == NumericMake(h, SizeT(ToWord(0)))
      any == NumericMakeId(zero.heap, AnyNumber, "right")
      input_pattern == AdditionMake(any.heap, zero.ptr, any.ptr)
      output_pattern == NumericMakeId(input_pattern.heap, AnyNumber, "right")
  IN  [heap |-> output_pattern.heap,
       transform |-> TransformMake("Left-wise Binary Addition with Zero",
                                   input_pattern.ptr, output_pattern.ptr)]

\* Optimizer::TransformBinaryAdditionWithZeroOnRight: any("left") + 0 -> any("left")
TransformBinaryAdditionWithZeroOnRight(h) ==
  LET any == NumericMakeId(h, AnyNumber, "left")
      zero == NumericMake(any.heap, SizeT(ToWord(0)))
      input_pattern == AdditionMake(zero.heap, any.ptr, zero.ptr)
      output_pattern == NumericMakeId(input_pattern.heap, AnyNumber, "left")
  IN  [heap |-> output_pattern.heap,
       transform |-> TransformMake("Right-wise Binary Addition with Zero",
                                   input_pattern.ptr, output_pattern.ptr)]

\* std::find followed by std::distance: the 0-based index of the first
\* element equal to id, Len(identifiers) (cend) when there is none
RECURSIVE FindFrom(_, _, _)
FindFrom(identifiers, id, i) ==
  IF i >= Len(identifiers) THEN Len(identifiers)
  ELSE IF identifiers[i + 1] = id THEN i
  ELSE FindFrom(identifiers, id, i + 1)
Find(identifiers, id) == FindFrom(identifiers, id, 0)

\* The addresses the allocator can hand out, as words: every word that is
\* 16-byte aligned and not null.
HeapAddresses ==
  {w \in [1..NumLimbs -> 0..(LimbBase - 1)] : w[1] % 16 = 0 /\ w # ToWord(0)}

\* The memory layouts of a run with objects 1..n, those of `dead` destroyed
\* before the call: layout[a] is the address the allocator gave object a.
\* Two objects alive together are at two addresses.
Layouts(n, dead) ==
  {layout \in [1..n -> HeapAddresses] :
     \A a, b \in (1..n) \ dead : a # b => layout[a] # layout[b]}

\* the low byte of word w
LowByte(w) == w[1] % 256

\* How a wrong static_cast to NumericConstantExpr behaves in one run
\* (undefined behaviour): it traps (a checked build), or it reads the bytes
\* of the object it is given, which lie where the run's allocator put them.
Crash == [crash |-> TRUE, layout |-> <<>>]
BadCastOutcomes(n, dead) == {Crash} \cup [crash : {FALSE}, layout : Layouts(n, dead)]

\* Value() read through the wrong static_cast of the addition expr, in a
\* run that does not trap: the bytes of left_ are read as the storage of
\* the variant and the low byte of right_ as its index.  The value holds
\* std::size_t = the address of the left child when that byte is 0, and
\* neither alternative otherwise.
BadCastValue(h, expr, bad) ==
  Variant(LowByte(bad.layout[h[expr].right]), bad.layout[h[expr].left])

\* The result of the rewrite functions: the heap after their allocations,
\* the tree they return, ok = FALSE when the process aborted instead, and
\* the record of what they did.
Done(h, ptr, log) == [heap |-> h, ptr |-> ptr, ok |-> TRUE, log |-> log]
Aborted(h, log) == [heap |-> h, ptr |-> nullptr, ok |-> FALSE, log |-> log]

\* One lookup of a template placeholder: the name looked up, whether
\* std::find found it, the index, the query node there, the leaf made.
Lookup(id, found, index, expr, made) ==
  [id |-> id, found |-> found, index |-> index, expr |-> expr, made |-> made]

\* Optimizer::ApplyTransformAt(pattern, expressions, identifiers).  A name
\* that std::find does not find fails the assert; an index past the end
\* makes expressions.at throw; a node there that is no numeric constant is
\* read through a wrong static_cast, which behaves as `bad` says.
RECURSIVE ApplyTransformAtPattern(_, _, _, _, _)
ApplyTransformAtPattern(h, pat, expressions, identifiers, bad) ==
  IF h[pat].type = BINARY_ADDITION
    THEN LET l == ApplyTransformAtPattern(h, h[pat].left, expressions, identifiers, bad)
             r == ApplyTransformAtPattern(l.heap, h[pat].right, expressions, identifiers, bad)
             made == AdditionMake(r.heap, l.ptr, r.ptr)
         IN  IF ~l.ok THEN l
             ELSE IF ~r.ok THEN Aborted(r.heap, l.log \o r.log)
             ELSE Done(made.heap, made.ptr, l.log \o r.log)
    ELSE IF HoldsAnyNumber(h[pat].value)
      THEN LET index == Find(identifiers, h[pat].id)
               found == index # Len(identifiers)
               inRange == index < Len(expressions)
               expr == IF found /\ inRange THEN expressions[index + 1] ELSE nullptr
               isNumeric == expr # nullptr /\ h[expr].type = NUMERIC_CONSTANT
               value == IF isNumeric THEN h[expr].value ELSE BadCastValue(h, expr, bad)
               made == NumericMake(h, value)
           IN  IF ~found \/ ~inRange \/ (~isNumeric /\ bad.crash)
                 THEN Aborted(h, <<Lookup(h[pat].id, found, index, expr, nullptr)>>)
                 ELSE Done(made.heap, made.ptr,
                           <<Lookup(h[pat].id, found, index, expr, made.ptr)>>)
      ELSE LET made == NumericMake(h, h[pat].value)
           IN  Done(made.heap, made.ptr, <<>>)

\* One rewrite: the rule, the matched query node, the two flattenings and
\* the lookups made while instantiating the output template.
Rewrite(transform, position, expressions, identifiers, lookups) ==
  [transform |-> transform, position |-> position, expressions |-> expressions,
   identifiers |-> identifiers, lookups |-> lookups]

\* Optimizer::ApplyTransformAt(transform, position)
ApplyTransformAt(h, transform, position, bad) ==
  LET expressions == FlattenExpressionsTo(h, position, <<>>)
      identifiers == FlattenIdentifiersTo(h, transform.input_pattern, <<>>)
      r == ApplyTransformAtPattern(h, transform.output_pattern, expressions, identifiers, bad)
  IN  [r EXCEPT !.log = <<Rewrite(transform, position, expressions, identifiers, r.log)>>]

\* Optimizer::ApplyTransform.  The order of the two recursive calls is left
\* open by C++; it decides the addresses of the new nodes and the order of
\* the rewrites of one pass in the record, which is read as a set.
RECURSIVE ApplyTransform(_, _, _, _)

\* Fault: a numeric leaf is returned as it is instead of a clone of it.
ApplyTransformSharingLeaves(h, transform, root, bad) ==
  IF h[root].type = BINARY_ADDITION
    THEN IF Match(h, transform.input_pattern, root)
      THEN ApplyTransformAt(h, transform, root, bad)
      ELSE LET l == ApplyTransform(h, transform, h[root].left, bad)
               r == ApplyTransform(l.heap, transform, h[root].right, bad)
               made == AdditionMake(r.heap, l.ptr, r.ptr)
           IN  IF ~l.ok THEN l
               ELSE IF ~r.ok THEN Aborted(r.heap, l.log \o r.log)
               ELSE Done(made.heap, made.ptr, l.log \o r.log)
    ELSE Done(h, root, <<>>)

\* Fault: below an addition that does not match, the right child is cloned
\* and the pass runs on the left child only.
ApplyTransformLeftOnly(h, transform, root, bad) ==
  IF h[root].type = BINARY_ADDITION
    THEN IF Match(h, transform.input_pattern, root)
      THEN ApplyTransformAt(h, transform, root, bad)
      ELSE LET l == ApplyTransform(h, transform, h[root].left, bad)
               r == Clone(l.heap, h[root].right)
               made == AdditionMake(r.heap, l.ptr, r.ptr)
           IN  IF ~l.ok THEN l
               ELSE Done(made.heap, made.ptr, l.log)
    ELSE LET c == Clone(h, root)
         IN  Done(c.heap, c.ptr, <<>>)

ApplyTransform(h, transform, root, bad) ==
  IF h[root].type = BINARY_ADDITION
    THEN IF Match(h, transform.input_pattern, root)
      THEN ApplyTransformAt(h, transform, root, bad)
      ELSE LET l == ApplyTransform(h, transform, h[root].left, bad)
               r == ApplyTransform(l.heap, transform, h[root].right, bad)
               made == AdditionMake(r.heap, l.ptr, r.ptr)
           IN  IF ~l.ok THEN l
               ELSE IF ~r.ok THEN Aborted(r.heap, l.log \o r.log)
               ELSE Done(made.heap, made.ptr, l.log \o r.log)
    ELSE LET c == Clone(h, root)
         IN  Done(c.heap, c.ptr, <<>>)

\* One pass of the loop of Optimize: the rule, the tree it was run on, the
\* tree it returned, and how many rewrites had been made before it.
Pass(transform, root, result, before) ==
  [transform |-> transform, root |-> root, result |-> result, before |-> before]

\* The loop of Optimizer::Optimize from transform number i on: each pass
\* runs on the result of the one before, whose pointer is released and
\* overwritten.  `released` collects the trees released and not returned.
RECURSIVE ApplyEach(_, _, _, _, _, _, _, _)

\* Fault: every pass is run on the tree Optimize was given, not on the
\* result of the pass before.
ApplyEachOnRoot(h, transforms, i, current, log, done, released, bad) ==
  IF i > Len(transforms)
    THEN [heap |-> h, ptr |-> current, ok |-> TRUE, log |-> log,
          passes |-> done, released |-> released]
    ELSE LET root == IF done = <<>> THEN current ELSE done[1].root
             transformed == ApplyTransform(h, transforms[i], root, bad)
         IN  IF ~transformed.ok
               THEN [heap |-> transformed.heap, ptr |-> nullptr, ok |-> FALSE,
                     log |-> log \o transformed.log,
                     passes |-> done, released |-> released]
               ELSE ApplyEach(transformed.heap, transforms, i + 1, transformed.ptr,
                              log \o transformed.log,
                              Append(done, Pass(transforms[i], root,
                                                transformed.ptr, Len(log))),
                              IF i = 1 THEN released ELSE Append(released, current),
                              bad)

ApplyEach(h, transforms, i, current, log, done, released, bad) ==
  IF i > Len(transforms)
    THEN [heap |-> h, ptr |-> current, ok |-> TRUE, log |-> log,
          passes |-> done, released |-> released]
    ELSE LET transformed == ApplyTransform(h, transforms[i], current, bad)
         IN  IF ~transformed.ok
               THEN [heap |-> transformed.heap, ptr |-> nullptr, ok |-> FALSE,
                     log |-> log \o transformed.log,
                     passes |-> done, released |-> released]
               ELSE ApplyEach(transformed.heap, transforms, i + 1, transformed.ptr,
                              log \o transformed.log,
                              Append(done, Pass(transforms[i], current,
                                                transformed.ptr, Len(log))),
                              IF i = 1 THEN released ELSE Append(released, current),
                              bad)

\* The return of Optimizer::Optimize after its loop ended as r.  `destroyed`:
\* the rules' trees, built in heap h, destroyed with the vector of
\* transforms.
Returned(r, transforms, h) ==
  r @@
  [transforms |-> transforms,
   destroyed |-> UNION {Nodes(h, transforms[i].input_pattern)
                          \cup Nodes(h, transforms[i].output_pattern)
                        : i \in 1..Len(transforms)}]

\* Fault: the right-zero rule is pushed before the left-zero rule.
OptimizeRightZeroFirst(h, root, bad) ==
  LET right == TransformBinaryAdditionWithZeroOnRight(h)
      left == TransformBinaryAdditionWithZeroOnLeft(right.heap)
      transforms == <<right.transform, left.transform>>
  IN  Returned(ApplyEach(left.heap, transforms, 1, root, <<>>, <<>>, <<>>, bad),
               transforms, left.heap)

\* Optimizer::Optimize
Optimize(h, root, bad) ==
  LET left == TransformBinaryAdditionWithZeroOnLeft(h)
      right == TransformBinaryAdditionWithZeroOnRight(left.heap)
      transforms == <<left.transform, right.transform>>
  IN  Returned(ApplyEach(right.heap, transforms, 1, root, <<>>, <<>>, <<>>, bad),
               transforms, right.heap)

-----------------------------------------------------------------------------
(* The caller: it builds its trees, then calls the public operations.      *)

NoCall ==
  [op |-> "none", on |-> nullptr, ok |-> TRUE, value |-> ToWord(0), match |-> FALSE]

\* the caller has built tree t, and tree p as well when p is given
InitWith(t, p, withPattern) ==
  LET b == Build(<<>>, t)
      c == IF withPattern THEN Build(b.heap, p) ELSE [heap |-> b.heap, ptr |-> nullptr]
  IN  /\ heap = c.heap
      /\ live = 1..Len(c.heap)
      /\ input = b.ptr
      /\ pattern = c.ptr
      /\ output = nullptr
      /\ again = nullptr
      /\ copy = nullptr
      /\ call = NoCall
      /\ passes = <<>>
      /\ rewrites = <<>>
      /\ replaces = 0
      /\ aborted = FALSE

\* the addresses allocated between heap h and the later heap h2
Allocated(h, h2) == (Len(h) + 1)..Len(h2)

\* eval(*tree) on a tree the caller owns
CallEval(p) ==
  /\ ~aborted
  /\ p # nullptr
  /\ \E r \in {eval(heap, p)} :
         /\ call' = [NoCall EXCEPT !.op = "eval", !.on = p, !.ok = r.ok, !.value = r.value]
         /\ aborted' = ~r.ok
  /\ UNCHANGED <<heap, live, input, pattern, output, again, copy, passes, rewrites,
               replaces>>

EvalInput == CallEval(input)
EvalOutput == CallEval(output)

\* Whether run r of the rewrite engine reached the static_cast of a node
\* that is no NumericConstantExpr.
ReachesBadCast(r) ==
  \E i \in 1..Len(r.log) : \E j \in 1..Len(r.log[i].lookups) :
    \E l \in {r.log[i].lookups[j]} :
      l.expr # nullptr /\ r.heap[l.expr].type # NUMERIC_CONSTANT

\* The outcomes of the undefined behaviour that Optimize(root) can meet:
\* all of them when the run reaches it, and nothing to choose otherwise.
\* Optimize(root) allocates its rules' trees and, in each of its two
\* passes, at most one object per object of the tree.
BadCastsOf(h, alive, root) ==
  IF \E r \in {Optimize(h, root, Crash)} : ReachesBadCast(r)
    THEN BadCastOutcomes(Len(Optimize(h, root, Crash).heap)
                           + 2 * Cardinality(Nodes(h, root)),
                         (1..Len(h)) \ alive)
    ELSE {Crash}

\* output = Optimizer::Optimize(input.get())
CallOptimize ==
  /\ ~aborted
  /\ output = nullptr
  /\ \E bad \in BadCastsOf(heap, live, input) : \E r \in {Optimize(heap, input, bad)} :
           /\ heap' = r.heap
           /\ live' = (live \cup Allocated(heap, r.heap)) \ (IF r.ok THEN r.destroyed ELSE {})
           /\ output' = r.ptr
           /\ passes' = r.passes
           /\ rewrites' = r.log
           /\ aborted' = ~r.ok
           /\ call' = [NoCall EXCEPT !.op = "Optimize", !.on = input, !.ok = r.ok]
  /\ UNCHANGED <<input, pattern, again, copy, replaces>>

\* again = Optimizer::Optimize(output.get()): the optimizer is run on the
\* tree it returned
CallOptimizeAgain ==
  /\ ~aborted
  /\ output # nullptr
  /\ again = nullptr
  /\ \E bad \in BadCastsOf(heap, live, output) : \E r \in {Optimize(heap, output, bad)} :
           /\ heap' = r.heap
           /\ live' = (live \cup Allocated(heap, r.heap)) \ (IF r.ok THEN r.destroyed ELSE {})
           /\ again' = r.ptr
           /\ passes' = r.passes
           /\ rewrites' = r.log
           /\ aborted' = ~r.ok
           /\ call' = [NoCall EXCEPT !.op = "Optimize", !.on = output, !.ok = r.ok]
  /\ UNCHANGED <<input, pattern, output, copy, replaces>>

\* copy = input->Clone()
CallClone ==
  /\ ~aborted
  /\ copy = nullptr
  /\ \E r \in {Clone(heap, input)} :
         /\ heap' = r.heap
         /\ live' = live \cup Allocated(heap, r.heap)
         /\ copy' = r.ptr
         /\ call' = [NoCall EXCEPT !.op = "Clone", !.on = input]
  /\ UNCHANGED <<input, pattern, output, again, passes, rewrites, replaces, aborted>>

\* the leaves the caller puts in place of a child
ReplaceNumerics == {SizeT(SIZE_MAX)}

\* the addition nodes of the copy, on which the caller can replace a child
CopyAdditions == {p \in Nodes(heap, copy) : heap[p].type = BINARY_ADDITION}

\* node->ReplaceLeft(NumericConstantExpr::Make(value)) on a node of the copy
CallReplaceLeft ==
  /\ ~aborted
  /\ replaces < MaxReplaces
  /\ \E p \in CopyAdditions, value \in ReplaceNumerics :
       LET made == NumericMake(heap, value)
           r == ReplaceLeft(made.heap, p, made.ptr)
       IN  /\ heap' = r.heap
           /\ live' = (live \cup {made.ptr}) \ r.destroyed
           /\ call' = [NoCall EXCEPT !.op = "ReplaceLeft", !.on = p]
  /\ replaces' = replaces + 1
  /\ UNCHANGED <<input, pattern, output, again, copy, passes, rewrites, aborted>>

\* node->ReplaceRight(NumericConstantExpr::Make(value)) on a node of the copy
CallReplaceRight ==
  /\ ~aborted
  /\ replaces < MaxReplaces
  /\ \E p \in CopyAdditions, value \in ReplaceNumerics :
       LET made == NumericMake(heap, value)
           r == ReplaceRight(made.heap, p, made.ptr)
       IN  /\ heap' = r.heap
           /\ live' = (live \cup {made.ptr}) \ r.destroyed
           /\ call' = [NoCall EXCEPT !.op = "ReplaceRight", !.on = p]
  /\ replaces' = replaces + 1
  /\ UNCHANGED <<input, pattern, output, again, copy, passes, rewrites, aborted>>

\* Optimizer::Match(pattern, input)
CallMatch ==
  /\ ~aborted
  /\ pattern # nullptr
  /\ call.op = "none"
  /\ call' = [NoCall EXCEPT !.op = "Match", !.on = input,
                            !.match = Match(heap, pattern, input)]
  /\ UNCHANGED <<heap, live, input, pattern, output, again, copy, passes, rewrites,
               replaces, aborted>>

-----------------------------------------------------------------------------
(* The specifications.                                                     *)

\* The caller of main.cpp: build a tree, optimize it, evaluate both.
Init == \E t \in TreesUpTo(MaxLeaves, Numerics, LeafIds, {NULL_ID}) : InitWith(t, t, FALSE)
Next == CallOptimize \/ EvalInput \/ EvalOutput
Spec == Init /\ [][Next]_vars

\* The caller optimizes a tree, then optimizes the result.
NextTwice == CallOptimize \/ CallOptimizeAgain
SpecTwice == Init /\ [][NextTwice]_vars

\* A caller that clones its tree and replaces children of the copy.
CloneNumerics == {SizeT(ToWord(1)), AnyNumber}
InitClone ==
  \E t \in TreesUpTo(MaxLeaves, CloneNumerics, LeafIds, AdditionIds) : InitWith(t, t, FALSE)
NextClone == CallClone \/ CallReplaceLeft \/ CallReplaceRight
SpecClone == InitClone /\ [][NextClone]_vars

\* A caller that matches one tree against another.
MatchNumerics == {SizeT(ToWord(0)), SizeT(ToWord(1)), AnyNumber}
MatchTrees == TreesUpTo(MaxMatchLeaves, MatchNumerics, LeafIds, {NULL_ID})
InitMatch == \E t \in MatchTrees, p \in MatchTrees : InitWith(t, p, TRUE)
NextMatch == CallMatch
SpecMatch == InitMatch /\ [][NextMatch]_vars
-----------------------------------------------------------------------------
(* Properties.  They are stated on trees as values (TreeAt) and on the     *)
(* identity of nodes (Nodes).                                              *)

\* the tree holds a wildcard leaf somewhere
HasWildcard(h, p) ==
  \E a \in Nodes(h, p) : h[a].type = NUMERIC_CONSTANT /\ HoldsAnyNumber(h[a].value)

Concrete(h, p) == ~HasWildcard(h, p)

\* the caller has called Optimize and it has returned a tree
Optimized == output # nullptr

\* C1: for a wildcard-free input t, Optimize(t) returns (it does not abort),
\* the tree it returns is wildcard-free, evaluating it does not abort, and
\* it evaluates to what t evaluates to.
C1_OptimizePreservesEvaluate ==
  /\ (call.op = "Optimize" /\ Concrete(heap, input)) => (call.ok /\ Optimized)
  /\ (Optimized /\ Concrete(heap, input)) =>
       /\ Concrete(heap, output)
       /\ eval(heap, output).ok
       /\ eval(heap, output) = eval(heap, input)
  /\ (call.op = "eval" /\ call.on = output /\ Optimized /\ Concrete(heap, input)) =>
       (call.ok /\ call.value = eval(heap, input).value)

\* an optimized concrete tree of three leaves, rewritten by both rules,
\* has been evaluated
C1_Witness ==
  /\ Optimized
  /\ Concrete(heap, input)
  /\ Cardinality(Nodes(heap, input)) = 5
  /\ Len(rewrites) = 2
  /\ rewrites[1].transform.name = "Left-wise Binary Addition with Zero"
  /\ rewrites[2].transform.name = "Right-wise Binary Addition with Zero"
  /\ call.op = "eval" /\ call.on = output /\ call.value = SIZE_MAX

\* C2: a call of Optimize leaves every object that existed before it as it
\* was (so the input tree is unchanged), and the tree it returns is made of
\* objects that did not exist before the call and are not the rules' (they
\* are live after the rules' trees have been destroyed).
C2_OptimizeFrame ==
  [][(output = nullptr /\ output' # nullptr) =>
       /\ \A a \in 1..Len(heap) : heap'[a] = heap[a]
       /\ input' = input
       /\ TreeAt(heap', input') = TreeAt(heap, input)
       /\ Nodes(heap', output') \cap (1..Len(heap)) = {}
       /\ Nodes(heap', output') \cap Nodes(heap', input') = {}
       /\ Nodes(heap', output') \cap Optimize(heap, input, Crash).destroyed = {}
       /\ Nodes(heap', output') \subseteq live'
       /\ Nodes(heap', input') \subseteq live']_vars

\* Optimize has returned a tree for an addition in which no rule matched
C2_Witness ==
  /\ Optimized
  /\ rewrites = <<>>
  /\ heap[input].type = BINARY_ADDITION
  /\ heap[output].type = BINARY_ADDITION

\* the tree 0 + N, N concrete
IsZeroPlusN(h, p) ==
  /\ h[p].type = BINARY_ADDITION
  /\ h[h[p].left].type = NUMERIC_CONSTANT
  /\ h[h[p].left].value = SizeT(ToWord(0))
  /\ h[h[p].right].type = NUMERIC_CONSTANT
  /\ HoldsSizeT(h[h[p].right].value)

\* C3: Optimize(0 + N) is a single numeric leaf with value N, for every
\* concrete N, 0 included.
C3_LeftZero ==
  (Optimized /\ IsZeroPlusN(heap, input)) =>
     /\ heap[output].type = NUMERIC_CONSTANT
     /\ heap[output].left = nullptr /\ heap[output].right = nullptr
     /\ heap[output].value = heap[heap[input].right].value

\* 0 + N has been optimized for N = 0, where the right-zero rule matches too
C3_Witness ==
  /\ Optimized
  /\ IsZeroPlusN(heap, input)
  /\ heap[heap[input].right].value = SizeT(ToWord(0))

\* The matcher of the specification, on trees as values: different kinds
\* never match, two additions match when their left children match and
\* their right children match, two numeric leaves match when one of them
\* is a wildcard or their values are equal.  It reads no binding name.
RECURSIVE RefMatch(_, _)
RefMatch(p, q) ==
  IF p.type # q.type THEN FALSE
  ELSE IF p.type = BINARY_ADDITION
    THEN RefMatch(p.left, q.left) /\ RefMatch(p.right, q.right)
    ELSE \/ HoldsAnyNumber(p.value)
         \/ HoldsAnyNumber(q.value)
         \/ (HoldsSizeT(p.value) /\ HoldsSizeT(q.value) /\ p.value.num = q.value.num)

\* the tree with every binding name removed
RECURSIVE StripIds(_)
StripIds(t) ==
  IF t.type = NUMERIC_CONSTANT THEN Leaf(t.value, NULL_ID)
  ELSE Add(StripIds(t.left), StripIds(t.right), NULL_ID)

\* C4: Match(pattern, query) is the reference matcher's answer on the two
\* trees without their binding names: it depends on kinds, shape and values
\* only, and a wildcard leaf does not match an addition.
C4_MatchIsReference ==
  (call.op = "Match") =>
     /\ call.match = RefMatch(StripIds(TreeAt(heap, pattern)), StripIds(TreeAt(heap, input)))
     /\ (heap[pattern].type # heap[input].type) => ~call.match

\* a named wildcard leaf has been matched against an addition
C4_Witness ==
  /\ call.op = "Match"
  /\ heap[pattern].type = NUMERIC_CONSTANT
  /\ HoldsAnyNumber(heap[pattern].value)
  /\ heap[pattern].id = "right"
  /\ heap[input].type = BINARY_ADDITION
  /\ ~call.match

\* What a width-free sum of words is: column i holds the sum of the i-th
\* limbs, and the carries are propagated once at the end into one limb more
\* than a std::size_t has.
RECURSIVE ColumnSum(_, _)
ColumnSum(ws, i) ==
  IF ws = <<>> THEN 0 ELSE Head(ws)[i] + ColumnSum(Tail(ws), i)

RECURSIVE CarryOfColumns(_, _)
CarryOfColumns(ws, i) ==
  IF i = 1 THEN 0
  ELSE (ColumnSum(ws, i - 1) + CarryOfColumns(ws, i - 1)) \div LimbBase

\* the mathematical sum of the words ws, in NumLimbs + 1 limbs
MathSum(ws) ==
  [i \in 1..(NumLimbs + 1) |->
     IF i <= NumLimbs
       THEN (ColumnSum(ws, i) + CarryOfColumns(ws, i)) % LimbBase
       ELSE CarryOfColumns(ws, i)]

\* a std::size_t as a number of NumLimbs + 1 limbs
Widen(w) == [i \in 1..(NumLimbs + 1) |-> IF i <= NumLimbs THEN w[i] ELSE 0]

\* a number of NumLimbs + 1 limbs modulo 2^SizeBits
Narrow(n) == [i \in 1..NumLimbs |-> n[i]]

\* the values of the numeric leaves of a concrete tree, left to right
RECURSIVE LeafValues(_, _)
LeafValues(h, p) ==
  IF h[p].type = NUMERIC_CONSTANT THEN <<h[p].value.num>>
  ELSE LeafValues(h, h[p].left) \o LeafValues(h, h[p].right)

\* C5 as stated: Evaluate of a concrete tree is the mathematical sum of its
\* leaves.
C5_EvaluateIsMathematicalSum ==
  (call.op = "eval" /\ Concrete(heap, call.on)) =>
     (call.ok /\ Widen(call.value) = MathSum(LeafValues(heap, call.on)))

\* C5, amended: Evaluate of a concrete tree is the mathematical sum of its
\* leaves modulo 2^SizeBits, whatever the shape of the additions; it is the
\* mathematical sum when that sum fits a std::size_t.
C5_EvaluateIsSumModulo ==
  (call.op = "eval" /\ Concrete(heap, call.on)) =>
     LET sum == MathSum(LeafValues(heap, call.on))
     IN  /\ call.ok
         /\ call.value = Narrow(sum)
         /\ (sum[NumLimbs + 1] = 0) => (Widen(call.value) = sum)

\* a right-nested tree of three leaves SIZE_MAX, whose sum is
\* 2 * 2^SizeBits + SIZE_MAX - 2, has been evaluated
C5_Witness ==
  /\ call.op = "eval"
  /\ call.on = input
  /\ Concrete(heap, input)
  /\ heap[input].type = BINARY_ADDITION
  /\ heap[heap[input].right].type = BINARY_ADDITION
  /\ MathSum(LeafValues(heap, input))[NumLimbs + 1] = 2
  /\ call.ok

\* C6: Evaluate aborts on every tree that holds a wildcard leaf, wherever
\* it is, and on no other tree.
C6_EvaluateAbortsOnWildcard ==
  /\ (call.op = "eval") => (call.ok <=> ~HasWildcard(heap, call.on))
  /\ (call.op = "eval") => (aborted <=> HasWildcard(heap, call.on))
  /\ \A p \in {input, output} \ {nullptr} : eval(heap, p).ok <=> ~HasWildcard(heap, p)

\* evaluating a tree whose only wildcard is the right leaf of its right
\* child has aborted
C6_Witness ==
  /\ call.op = "eval"
  /\ call.on = input
  /\ aborted
  /\ heap[input].type = BINARY_ADDITION
  /\ Concrete(heap, heap[input].left)
  /\ heap[heap[input].right].type = BINARY_ADDITION
  /\ Concrete(heap, heap[heap[input].right].left)
  /\ HasWildcard(heap, heap[heap[input].right].right)

\* a step of the caller that is a call of Clone
CloneStep == copy = nullptr /\ copy' # nullptr

\* C7: Clone returns a tree equal to the original in kinds, values, binding
\* names and shape that shares no node with it; and whatever children the
\* caller then replaces in the copy, the original keeps its structure and
\* its Evaluate result, and the two trees stay disjoint.
C7_CloneIsIndependent ==
  [][/\ CloneStep =>
          /\ TreeAt(heap', copy') = TreeAt(heap, input)
          /\ Nodes(heap', copy') \cap Nodes(heap', input') = {}
          /\ Nodes(heap', copy') \cap (1..Len(heap)) = {}
     /\ (copy # nullptr \/ copy' # nullptr) =>
          /\ input' = input
          /\ \A a \in Nodes(heap, input) : heap'[a] = heap[a]
          /\ TreeAt(heap', input') = TreeAt(heap, input)
          /\ eval(heap', input') = eval(heap, input)
          /\ Nodes(heap', copy') \cap Nodes(heap', input') = {}
          /\ Nodes(heap', input') \subseteq live']_vars

\* the caller has replaced two children in the copy, the second one in a
\* descendant of its root, and the copy differs from the original
C7_Witness ==
  /\ copy # nullptr
  /\ replaces = 2
  /\ call.op \in {"ReplaceLeft", "ReplaceRight"}
  /\ call.on # copy
  /\ call.on \in Nodes(heap, copy)
  /\ TreeAt(heap, copy) # TreeAt(heap, input)
  /\ eval(heap, copy) # eval(heap, input)

\* The two rules of the specification, as values.
LeftZeroRule ==
  [input |-> Add(Leaf(SizeT(ToWord(0)), NULL_ID), Leaf(AnyNumber, "right"), NULL_ID),
   output |-> Leaf(AnyNumber, "right")]
RightZeroRule ==
  [input |-> Add(Leaf(AnyNumber, "left"), Leaf(SizeT(ToWord(0)), NULL_ID), NULL_ID),
   output |-> Leaf(AnyNumber, "left")]

\* A position in a tree: the turns taken from the root.
RECURSIVE Paths(_)
Paths(t) ==
  IF t.type = NUMERIC_CONSTANT THEN {<<>>}
  ELSE {<<>>} \cup {<<"left">> \o q : q \in Paths(t.left)}
              \cup {<<"right">> \o q : q \in Paths(t.right)}

RECURSIVE SubAt(_, _)
SubAt(t, path) ==
  IF path = <<>> THEN t
  ELSE IF Head(path) = "left" THEN SubAt(t.left, Tail(path))
  ELSE SubAt(t.right, Tail(path))

\* the position of the node of pattern pat that carries binding name id
PathOfName(pat, id) == CHOOSE path \in Paths(pat) : SubAt(pat, path).id = id

\* the output template of a rule instantiated for the matched tree q
RECURSIVE Instantiate(_, _, _)
Instantiate(template, pat, q) ==
  IF template.type = BINARY_ADDITION
    THEN Add(Instantiate(template.left, pat, q), Instantiate(template.right, pat, q), NULL_ID)
  ELSE IF HoldsAnyNumber(template.value)
    THEN Leaf(SubAt(q, PathOfName(pat, template.id)).value, NULL_ID)
  ELSE Leaf(template.value, NULL_ID)

\* One pass of one rule as the specification describes it: a matching
\* addition is replaced whole, an addition that does not match is rebuilt
\* from the pass over each child, a leaf is copied as it is.
RECURSIVE RefPass(_, _)
RefPass(rule, t) ==
  IF t.type = BINARY_ADDITION
    THEN IF RefMatch(rule.input, t)
      THEN Instantiate(rule.output, rule.input, t)
      ELSE Add(RefPass(rule, t.left), RefPass(rule, t.right), NULL_ID)
    ELSE t

LeftZeroPass(t) == RefPass(LeftZeroRule, t)
RightZeroPass(t) == RefPass(RightZeroRule, t)

\* Optimize ran one pass per rule, left-zero then right-zero, each on the
\* result of the one before, and returned RightZeroPass(LeftZeroPass(t))
OnePassPerRuleInOrder ==
  (Optimized /\ Concrete(heap, input)) =>
     /\ Len(passes) = 2
     /\ passes[1].transform.name = "Left-wise Binary Addition with Zero"
     /\ passes[2].transform.name = "Right-wise Binary Addition with Zero"
     /\ passes[1].root = input
     /\ passes[2].root = passes[1].result
     /\ output = passes[2].result
     /\ TreeAt(heap, passes[1].result) = LeftZeroPass(TreeAt(heap, input))
     /\ TreeAt(heap, output) = RightZeroPass(LeftZeroPass(TreeAt(heap, input)))

\* the tree 0 + (N + 0), N concrete
IsZeroPlusNPlusZero(h, p) ==
  /\ h[p].type = BINARY_ADDITION
  /\ h[h[p].left].type = NUMERIC_CONSTANT
  /\ h[h[p].left].value = SizeT(ToWord(0))
  /\ h[h[p].right].type = BINARY_ADDITION
  /\ h[h[h[p].right].left].type = NUMERIC_CONSTANT
  /\ HoldsSizeT(h[h[h[p].right].left].value)
  /\ h[h[h[p].right].right].type = NUMERIC_CONSTANT
  /\ h[h[h[p].right].right].value = SizeT(ToWord(0))

\* the N of 0 + (N + 0)
TheN(h, p) == h[h[h[p].right].left].value

\* the output is the tree 0 + N
OutputIsZeroPlus(n) ==
  /\ IsZeroPlusN(heap, output)
  /\ heap[heap[output].right].value = n

\* C8 as stated: one pass per rule in the fixed order, and 0 + (N + 0)
\* becomes 0 + N for every concrete N.
C8_OnePassEachAnyN ==
  /\ OnePassPerRuleInOrder
  /\ (Optimized /\ IsZeroPlusNPlusZero(heap, input)) => OutputIsZeroPlus(TheN(heap, input))

\* C8, amended: one pass per rule in the fixed order, Optimize(t) being
\* RightZeroPass(LeftZeroPass(t)); 0 + (N + 0) becomes 0 + N, not N, for
\* every concrete N other than 0, and the single leaf 0 for N = 0.
C8_OnePassEach ==
  /\ OnePassPerRuleInOrder
  /\ (Optimized /\ IsZeroPlusNPlusZero(heap, input)) =>
        IF TheN(heap, input) = SizeT(ToWord(0))
          THEN TreeAt(heap, output) = Leaf(SizeT(ToWord(0)), NULL_ID)
          ELSE OutputIsZeroPlus(TheN(heap, input))

\* 0 + (1 + 0) has been optimized: the right-zero pass made 0 + 1
C8_Witness ==
  /\ Optimized
  /\ IsZeroPlusNPlusZero(heap, input)
  /\ TheN(heap, input) = SizeT(ToWord(1))
  /\ Len(rewrites) = 1
  /\ rewrites[1].transform.name = "Right-wise Binary Addition with Zero"

\* the rewrites made during pass k of the last Optimize
RewritesOf(k) ==
  LET from == passes[k].before + 1
      to == IF k < Len(passes) THEN passes[k + 1].before ELSE Len(rewrites)
  IN  {rewrites[i] : i \in from..to}

\* the rule of a transform, as a value
RuleOf(transform) ==
  [input |-> TreeAt(heap, transform.input_pattern),
   output |-> TreeAt(heap, transform.output_pattern)]

\* the additions of the tree at root that the rule's input pattern matches
\* and that lie inside no other addition it matches
OutermostMatches(rule, root) ==
  {n \in Nodes(heap, root) :
     /\ heap[n].type = BINARY_ADDITION
     /\ RefMatch(rule.input, TreeAt(heap, n))
     /\ \A a \in Nodes(heap, root) :
          (a # n /\ n \in Nodes(heap, a)) => ~RefMatch(rule.input, TreeAt(heap, a))}

\* C9: each pass of Optimize returns what the specification's pass returns
\* for its rule: the rewrites it makes are at the outermost matching
\* additions and nowhere else (nothing inside a matched subtree is
\* visited), every other addition is a new node over the pass of its
\* children, and a leaf is cloned with its value and binding name.
C9_PassIsOutermostMatchWins ==
  \A k \in 1..Len(passes) :
    LET pass == passes[k]
        rule == RuleOf(pass.transform)
    IN  /\ TreeAt(heap, pass.result) = RefPass(rule, TreeAt(heap, pass.root))
        /\ {r.position : r \in RewritesOf(k)} = OutermostMatches(rule, pass.root)
        /\ Cardinality(RewritesOf(k)) = Cardinality(OutermostMatches(rule, pass.root))
        /\ \A r \in RewritesOf(k) : r.transform = pass.transform
        /\ Nodes(heap, pass.result) \cap Nodes(heap, pass.root) = {}
        /\ (heap[pass.root].type = NUMERIC_CONSTANT) =>
              /\ heap[pass.result] = heap[pass.root]
              /\ pass.result # pass.root

\* the left-zero pass over (0 + N) + M, M a leaf with a binding name: the
\* root did not match, its left child was rewritten, its right child cloned
C9_Witness ==
  /\ Optimized
  /\ Len(passes) = 2
  /\ {r.position : r \in RewritesOf(1)} = {heap[input].left}
  /\ heap[input].type = BINARY_ADDITION
  /\ heap[passes[1].result].type = BINARY_ADDITION
  /\ heap[heap[input].right].id = "right"
  /\ heap[heap[passes[1].result].right] = heap[heap[input].right]

\* the node of the tree at p reached by the turns of path
RECURSIVE NodeAt(_, _, _)
NodeAt(h, p, path) ==
  IF path = <<>> THEN p
  ELSE IF Head(path) = "left" THEN NodeAt(h, h[p].left, Tail(path))
  ELSE NodeAt(h, h[p].right, Tail(path))

\* C10: in every rewrite Optimize makes on a concrete tree, the two
\* flattenings have the same length; every lookup is of a non-empty name
\* and finds it; the query node at the index found is a numeric leaf and
\* sits where the pattern node carrying the name sits; and the leaf made
\* carries that node's concrete value and no binding name.  Optimize does
\* not abort.
C10_BindingLookup ==
  /\ (call.op = "Optimize" /\ Concrete(heap, input)) => call.ok
  /\ (Optimized /\ Concrete(heap, input)) =>
       \A i \in 1..Len(rewrites) :
         LET r == rewrites[i]
             pat == r.transform.input_pattern
         IN  /\ Len(r.expressions) = Len(r.identifiers)
             /\ r.expressions = FlattenExpressionsTo(heap, r.position, <<>>)
             /\ Len(r.lookups) = 1
             /\ \A j \in 1..Len(r.lookups) :
                  LET l == r.lookups[j]
                  IN  /\ l.id # NULL_ID
                      /\ l.found
                      /\ l.index < Len(r.identifiers)
                      /\ r.identifiers[l.index + 1] = l.id
                      /\ l.expr = r.expressions[l.index + 1]
                      /\ heap[l.expr].type = NUMERIC_CONSTANT
                      /\ \E path \in Paths(TreeAt(heap, pat)) :
                           /\ heap[NodeAt(heap, pat, path)].id = l.id
                           /\ Paths(TreeAt(heap, r.position)) = Paths(TreeAt(heap, pat))
                           /\ NodeAt(heap, r.position, path) = l.expr
                      /\ HoldsSizeT(heap[l.expr].value)
                      /\ heap[l.made] = NumericNode(heap[l.expr].value, NULL_ID)

\* both rules have rewritten a concrete tree whose matched leaves carry a
\* binding name of their own
C10_Witness ==
  /\ Optimized
  /\ Concrete(heap, input)
  /\ Len(rewrites) = 2
  /\ rewrites[1].transform.name = "Left-wise Binary Addition with Zero"
  /\ rewrites[2].transform.name = "Right-wise Binary Addition with Zero"
  /\ rewrites[1].lookups[1].index = 1
  /\ rewrites[2].lookups[1].index = 0
  /\ heap[rewrites[1].lookups[1].expr].id = "right"
  /\ heap[rewrites[1].lookups[1].expr].value = SizeT(SIZE_MAX)
\* The trees Optimizer::Optimize has released and not handed to anyone: the
\* results of the passes before the last one.
Unowned == UNION {Nodes(heap, passes[i].result) : i \in 1..(Len(passes) - 1)}

\* C11: when Optimize has returned, every tree it allocated other than the
\* returned one has been destroyed: the result of the first rule's pass is
\* not left allocated, and the only live objects are those of the caller's
\* input tree and those of the returned tree.
C11_OptimizeLeavesOnlyInputAndOutput ==
  Optimized =>
    /\ live = Nodes(heap, input) \cup Nodes(heap, output)
    /\ Unowned \cap live = {}
\* Some addition node of tree t is matched by the input pattern of one of
\* the two shipped rules.
StillMatches(t) ==
  \E path \in Paths(t) :
     /\ SubAt(t, path).type = BINARY_ADDITION
     /\ \/ RefMatch(LeftZeroRule.input, SubAt(t, path))
        \/ RefMatch(RightZeroRule.input, SubAt(t, path))

\* the number of leaves of tree t
RECURSIVE LeafCount(_)
LeafCount(t) ==
  IF t.type = NUMERIC_CONSTANT THEN 1 ELSE LeafCount(t.left) + LeafCount(t.right)

\* Optimize has been run on a concrete tree and then on its own result
OptimizedTwice == again # nullptr /\ Concrete(heap, input)

\* C12 as stated: for every concrete tree t, Optimize(Optimize(t)) is
\* structurally equal to Optimize(t), and Optimize(t) contains no addition
\* node that the input pattern of a shipped rule still matches.
C12_OptimizeIsIdempotent ==
  OptimizedTwice =>
     /\ TreeAt(heap, again) = TreeAt(heap, output)
     /\ ~StillMatches(TreeAt(heap, output))

\* C12, amended: Optimize(Optimize(t)) is structurally equal to Optimize(t)
\* exactly when Optimize(t) contains no addition node that the input
\* pattern of a shipped rule matches.  That is so for every concrete tree
\* of at most two leaves, and not for every concrete tree: for N other than
\* 0, 0 + (N + 0) becomes 0 + N, and 0 + N becomes N.
C12_IdempotentIffNothingMatches ==
  OptimizedTwice =>
     /\ (TreeAt(heap, again) = TreeAt(heap, output)) <=> ~StillMatches(TreeAt(heap, output))
     /\ LeafCount(TreeAt(heap, input)) <= 2 => TreeAt(heap, again) = TreeAt(heap, output)
     /\ (IsZeroPlusNPlusZero(heap, input) /\ TheN(heap, input) # SizeT(ToWord(0))) =>
           /\ OutputIsZeroPlus(TheN(heap, input))
           /\ TreeAt(heap, again) = Leaf(TheN(heap, input), NULL_ID)

\* 0 + (1 + 0) has been optimized twice: the first call made 0 + 1, which
\* the left-zero rule still matches, and the second call made the leaf 1
C12_Witness ==
  /\ OptimizedTwice
  /\ IsZeroPlusNPlusZero(heap, input)
  /\ TheN(heap, input) = SizeT(ToWord(1))
  /\ StillMatches(TreeAt(heap, output))
  /\ TreeAt(heap, again) # TreeAt(heap, output)
====
